---------------------------- MODULE Spec2Model ----------------------------
(***************************************************************************)
(* Room coordination core of truth_or_meme: the HTTP handlers of          *)
(* registerRoutes (rooms, submissions, votes), the storage they call, and  *)
(* the WebSocket connection registry with broadcastToRoom.                 *)
(*                                                                         *)
(* Every handler is an async function: it runs without interruption up to  *)
(* an `await storage.x(...)`, and other handlers may run before it         *)
(* resumes.  One action of the model is one storage operation of a request *)
(* together with the synchronous code that follows it up to the next await *)
(* or the response.  The arrival of a request is merged with its first     *)
(* storage operation (the code before it reads only the request body).     *)
(***************************************************************************)
EXTENDS Integers, Sequences, FiniteSets, TLC

(***************************************************************************)
(* Bounds of the model.                                                    *)
(***************************************************************************)
\* rows of room_players, of game_submissions and of game_votes, those that
\* requests in flight are about to insert included
MaxRoomPlayers == 2
MaxSubmissions == 2
MaxVotes == 2
\* messages an inbox holds when a start request is admitted, those that
\* requests in flight are about to send included
MaxInbox == 4
\* messages an inbox holds when a join_room message is admitted
MaxWsInbox == 2

RoomIds == {"A", "B"}
Conns == {"c1", "c2", "c3"}
Phrases == {"p"}
Rounds == {1, 2}
Types == {"truth", "meme"}
DefaultMaxRounds == 5

\* SQL NULL / JS null: a value no request body number equals.
Null == -1

\* the ids of the rows of the users table
Users == {1, 2}
\* ids a request body may carry: 0 is the falsy/missing id, 3 names no user
UserIdInputs == {0, 1, 2, 3}
\* the requests in flight at once: two, which every race between two handlers needs
Tasks == {1, 2}

VARIABLES
    rooms,            \* table rooms: id -> row
    roomPlayers,      \* table room_players, in insertion (serial id) order
    gameSubmissions,  \* table game_submissions, in insertion order
    gameVotes,        \* table game_votes, in insertion order
    roomConnections,  \* Map<string, Set<WebSocket>>
    userConnections,  \* Map<number, WebSocket>, in insertion order
    readyState,       \* ws.readyState of every connection
    inbox,            \* what ws.send has delivered to every connection
    tasks,            \* the requests in flight
    response          \* the last response sent: the request, res.status, the error body

vars == <<rooms, roomPlayers, gameSubmissions, gameVotes,
          roomConnections, userConnections, readyState, inbox, tasks, response>>
storageVars == <<rooms, roomPlayers, gameSubmissions, gameVotes>>
registryVars == <<roomConnections, userConnections, readyState>>


(***************************************************************************)
(* Storage: the tables of the schema and the DbStorage operations.  A      *)
(* failing insert (primary key or foreign key violated) rejects the        *)
(* promise, which the handler's catch turns into a response.               *)
(***************************************************************************)
RoomExists(id) == id \in DOMAIN rooms

\* DbStorage.createRoom: the row inserted for (insertRoom, hostId)
NewRoomRow(id, maxRounds, hostId) ==
    [id |-> id, hostId |-> hostId, status |-> "waiting",
     currentPlayerId |-> Null, currentRound |-> 1, maxRounds |-> maxRounds]

\* rooms without the primary key on id: an insert of a present id replaces the row
CreateRoomThrows_NoPrimaryKey(id, hostId) == hostId \notin Users

\* rooms.id is the primary key, rooms.host_id references users.id
CreateRoomThrows(id, hostId) == RoomExists(id) \/ hostId \notin Users

\* DbStorage.joinRoom: the row inserted for {roomId, userId}
NewRoomPlayerRow(roomId, userId) ==
    [id |-> Len(roomPlayers) + 1, roomId |-> roomId, userId |-> userId, score |-> 0]

\* room_players.room_id references rooms.id, room_players.user_id references users.id
JoinRoomThrows(roomId, userId) == ~RoomExists(roomId) \/ userId \notin Users

\* the room_players rows of a room, in insertion (join) order
RoomPlayerRows(roomId) == SelectSeq(roomPlayers, LAMBDA r : r.roomId = roomId)

RowOrders(n) == {f \in [1..n -> 1..n] : \A i, j \in 1..n : f[i] = f[j] => i = j}

\* getRoomPlayers without its WHERE clause: the rows of every room
GetRoomPlayersResults_NoWhere(roomId) ==
    LET n == Len(roomPlayers)
    IN  {[i \in 1..n |-> roomPlayers[f[i]]] : f \in RowOrders(n)}

\* DbStorage.getRoomPlayers: a SELECT with no ORDER BY, so the rows of the
\* room come back in whatever order the database chooses.
GetRoomPlayersResults(roomId) ==
    LET rows == RoomPlayerRows(roomId)
        n == Len(rows)
    IN  {[i \in 1..n |-> rows[f[i]]] : f \in RowOrders(n)}

\* an update that takes a playing room back to waiting instead of writing the status given
UpdateRoom_TogglesStatus(id, status, currentPlayerId) ==
    [rooms EXCEPT ![id] = [@ EXCEPT !.status = IF @ = "playing" THEN "waiting" ELSE status,
                                    !.currentPlayerId = currentPlayerId]]

\* DbStorage.updateRoom(id, {status, currentPlayerId})
UpdateRoom(id, status, currentPlayerId) ==
    [rooms EXCEPT ![id] = [@ EXCEPT !.status = status,
                                    !.currentPlayerId = currentPlayerId]]

\* DbStorage.createSubmission: the row inserted for the parsed body
NewSubmissionRow(a) ==
    [id |-> Len(gameSubmissions) + 1, roomId |-> a.roomId, playerId |-> a.playerId,
     round |-> a.round, phrase |-> a.phrase, actualType |-> a.actualType]

\* game_submissions.room_id references rooms.id, player_id references users.id
CreateSubmissionThrows(a) == ~RoomExists(a.roomId) \/ a.playerId \notin Users

\* hasUserVoted with its two parameters taken in the wrong order
HasUserVoted_ArgsSwapped(submissionId, voterId) ==
    \E i \in 1..Len(gameVotes) :
        gameVotes[i].submissionId = voterId /\ gameVotes[i].voterId = submissionId

\* DbStorage.hasUserVoted
HasUserVoted(submissionId, voterId) ==
    \E i \in 1..Len(gameVotes) :
        gameVotes[i].submissionId = submissionId /\ gameVotes[i].voterId = voterId

\* DbStorage.createVote: the row inserted for the parsed body; every column
\* insertGameVoteSchema picks, isCorrect included, is the caller's.
NewVoteRow(a) ==
    [id |-> Len(gameVotes) + 1, submissionId |-> a.submissionId, voterId |-> a.voterId,
     guessedType |-> a.guessedType, isCorrect |-> a.isCorrect]

\* game_votes.submission_id references game_submissions.id, voter_id references users.id
CreateVoteThrows(a) ==
    a.submissionId \notin 1..Len(gameSubmissions) \/ a.voterId \notin Users

(***************************************************************************)
(* Connection registry.                                                    *)
(***************************************************************************)
\* broadcastToRoom without the readyState check
BroadcastToRoom_IgnoringReadyState(roomId, message) ==
    IF roomId \in DOMAIN roomConnections'
    THEN [c \in Conns |->
            IF c \in roomConnections'[roomId] THEN Append(inbox[c], message) ELSE inbox[c]]
    ELSE inbox

\* a broadcast that sends to a member of the room once for every user id
\* bound to it, instead of once for every member of the set
BroadcastToRoom_PerUserBinding(roomId, message) ==
    IF roomId \in DOMAIN roomConnections'
    THEN [c \in Conns |->
            LET k == Cardinality({i \in 1..Len(userConnections') :
                                     userConnections'[i].ws = c})
            IN  IF c \in roomConnections'[roomId] /\ readyState'[c] = "OPEN" /\ k > 0
                THEN IF k = 1 THEN Append(inbox[c], message)
                     ELSE Append(Append(inbox[c], message), message)
                ELSE inbox[c]]
    ELSE inbox

\* broadcastToRoom(roomId, message): the inboxes after the call.  The
\* message is sent as JSON text of the object; the inbox keeps the object
\* that text denotes.
BroadcastToRoom(roomId, message) ==
    IF roomId \in DOMAIN roomConnections'
    THEN [c \in Conns |->
            IF c \in roomConnections'[roomId] /\ readyState'[c] = "OPEN"
            THEN Append(inbox[c], message)
            ELSE inbox[c]]
    ELSE inbox

\* the events the handlers build
UserJoinedEvent(userId) == [type |-> "user_joined", userId |-> userId]
PlayerJoinedEvent(roomPlayer) == [type |-> "player_joined", player |-> roomPlayer]
GameStartedEvent(currentPlayerId) ==
    [type |-> "game_started", currentPlayerId |-> currentPlayerId]
\* new_submission carrying the stored row as it is
NewSubmissionEvent_WholeRow(submission) ==
    [type |-> "new_submission", submission |-> submission]

NewSubmissionEvent(submission) ==
    [type |-> "new_submission",
     submission |-> [id |-> submission.id, phrase |-> submission.phrase,
                     round |-> submission.round, playerId |-> submission.playerId]]

(***************************************************************************)
(* Requests.                                                               *)
(***************************************************************************)
NoArgs == [none |-> TRUE]
NoRoom == [none |-> TRUE]
\* a request: its handler, the await it is suspended at, its body and
\* parameters, and the locals of the start handler: room (what getRoom
\* returned) and first (players[0].userId)
IdleTask == [op |-> "none", pc |-> "idle", args |-> NoArgs, room |-> NoRoom, first |-> Null]
NoResponse == [op |-> "none", status |-> 0, error |-> ""]

Free(t) == tasks[t].pc = "idle"
\* a request that arrives takes the lowest free slot
Arrives(t) == Free(t) /\ \A u \in Tasks : u < t => ~Free(u)

NewTask(op, pc, args) ==
    [op |-> op, pc |-> pc, args |-> args, room |-> NoRoom, first |-> Null]

\* res.status(status).json({error}) or res.json(...): the request is over
Respond(t, task, status, error) ==
    /\ tasks' = [tasks EXCEPT ![t] = IdleTask]
    /\ response' = [op |-> task.op, status |-> status, error |-> error]

\* the handler is suspended at its next await
Suspend(t, task) ==
    /\ tasks' = [tasks EXCEPT ![t] = task]
    /\ UNCHANGED response

\* the requests in flight among the operations ops
InFlight(ops) == Cardinality({t \in Tasks : tasks[t].op \in ops})

\* The bounds of the tables and of the inboxes: a request that passes its
\* handler's checks, and so goes on to insert a row or to start a game, is
\* not sent once the rows, or the messages, that exist or are on their way
\* reach the bound.  A request the handler rejects is always possible.
RoomPlayersBelowBound ==
    Len(roomPlayers) + InFlight({"createRoom", "joinRoom"}) < MaxRoomPlayers
SubmissionsBelowBound == Len(gameSubmissions) + InFlight({"submitPhrase"}) < MaxSubmissions
VotesBelowBound == Len(gameVotes) + InFlight({"castVote"}) < MaxVotes
InboxBelowBound ==
    \A c \in Conns :
        Len(inbox[c]) + InFlight({"joinRoom", "startGame", "submitPhrase"}) < MaxInbox


(***************************************************************************)
(* POST /api/rooms                                                         *)
(***************************************************************************)
\* arrival, insertRoomSchema.parse, the hostId check, await storage.createRoom
CreateRoom_createRoom(t, id, maxRounds, hostId) ==
    /\ Arrives(t)
    /\ LET task == NewTask("createRoom", "joinRoom",
                           [id |-> id, maxRounds |-> maxRounds, hostId |-> hostId])
       IN  IF hostId = 0
           THEN /\ Respond(t, task, 400, "Host ID is required")
                /\ UNCHANGED rooms
           ELSE IF CreateRoomThrows(id, hostId)
           THEN /\ Respond(t, task, 400, "Invalid room data")
                /\ UNCHANGED rooms
           ELSE /\ ~RoomExists(id) => RoomPlayersBelowBound
                /\ rooms' = [r \in DOMAIN rooms \cup {id} |->
                               IF r = id THEN NewRoomRow(id, maxRounds, hostId)
                                         ELSE rooms[r]]
                /\ Suspend(t, task)
    /\ UNCHANGED <<roomPlayers, gameSubmissions, gameVotes, registryVars, inbox>>

\* await storage.joinRoom({roomId: room.id, userId: hostId}); res.json(room)
CreateRoom_joinRoom(t) ==
    /\ tasks[t].op = "createRoom" /\ tasks[t].pc = "joinRoom"
    /\ LET a == tasks[t].args
       IN  IF JoinRoomThrows(a.id, a.hostId)
           THEN /\ Respond(t, tasks[t], 400, "Invalid room data")
                /\ UNCHANGED roomPlayers
           ELSE /\ roomPlayers' = Append(roomPlayers, NewRoomPlayerRow(a.id, a.hostId))
                /\ Respond(t, tasks[t], 200, "")
    /\ UNCHANGED <<rooms, gameSubmissions, gameVotes, registryVars, inbox>>

(***************************************************************************)
(* POST /api/rooms/:id/join                                                *)
(***************************************************************************)
\* a status check that turns away finished games only
GameAlreadyStarted_FinishedOnly(room) == room.status = "finished"

\* room.status !== "waiting"
GameAlreadyStarted(room) == room.status # "waiting"

\* arrival, the userId check, await storage.getRoom, the two checks on the room
JoinRoom_getRoom(t, roomId, userId) ==
    /\ Arrives(t)
    /\ LET task == NewTask("joinRoom", "joinRoom", [roomId |-> roomId, userId |-> userId])
       IN  IF userId = 0 THEN Respond(t, task, 400, "User ID is required")
           ELSE IF ~RoomExists(roomId) THEN Respond(t, task, 404, "Room not found")
           ELSE IF GameAlreadyStarted(rooms[roomId])
                THEN Respond(t, task, 400, "Game already in progress")
           ELSE /\ rooms[roomId].status = "waiting" => RoomPlayersBelowBound
                /\ Suspend(t, task)
    /\ UNCHANGED <<storageVars, registryVars, inbox>>

\* await storage.joinRoom; broadcastToRoom(player_joined); res.json(roomPlayer)
JoinRoom_joinRoom(t) ==
    /\ tasks[t].op = "joinRoom" /\ tasks[t].pc = "joinRoom"
    /\ UNCHANGED <<rooms, gameSubmissions, gameVotes, registryVars>>
    /\ LET a == tasks[t].args
       IN  IF JoinRoomThrows(a.roomId, a.userId)
           THEN /\ Respond(t, tasks[t], 400, "Failed to join room")
                /\ UNCHANGED <<roomPlayers, inbox>>
           ELSE LET roomPlayer == NewRoomPlayerRow(a.roomId, a.userId)
                IN  /\ roomPlayers' = Append(roomPlayers, roomPlayer)
                    /\ inbox' = BroadcastToRoom(a.roomId, PlayerJoinedEvent(roomPlayer))
                    /\ Respond(t, tasks[t], 200, "")

(***************************************************************************)
(* POST /api/rooms/:id/start                                               *)
(***************************************************************************)
\* the host check with the comparison inverted
NotHost_Inverted(room, hostId) == room.hostId = hostId

\* room.hostId !== hostId
NotHost(room, hostId) == room.hostId # hostId

\* the player count check off by one
TooFewPlayers_OffByOne(players) == Len(players) < 1

\* players.length < 2
TooFewPlayers(players) == Len(players) < 2

\* arrival, await storage.getRoom, the host check
StartGame_getRoom(t, roomId, hostId) ==
    /\ Arrives(t)
    /\ LET task == NewTask("startGame", "getRoomPlayers",
                           [roomId |-> roomId, hostId |-> hostId])
       IN  IF ~RoomExists(roomId) THEN Respond(t, task, 404, "Room not found")
           ELSE IF NotHost(rooms[roomId], hostId)
                THEN Respond(t, task, 403, "Only host can start the game")
           ELSE /\ InboxBelowBound
                /\ Suspend(t, [task EXCEPT !.room = rooms[roomId]])
    /\ UNCHANGED <<storageVars, registryVars, inbox>>

\* a start handler that announces the game before the update is awaited
StartGame_getRoomPlayers_BroadcastsEarly(t) ==
    /\ tasks[t].op = "startGame" /\ tasks[t].pc = "getRoomPlayers"
    /\ UNCHANGED <<storageVars, registryVars>>
    /\ \E players \in GetRoomPlayersResults(tasks[t].args.roomId) :
          IF TooFewPlayers(players)
          THEN /\ Respond(t, tasks[t], 400, "Need at least 2 players to start")
               /\ UNCHANGED inbox
          ELSE /\ Suspend(t, [tasks[t] EXCEPT !.pc = "updateRoom",
                                              !.first = players[1].userId])
               /\ inbox' = BroadcastToRoom(tasks[t].args.roomId,
                                           GameStartedEvent(players[1].userId))

\* await storage.getRoomPlayers, the player count check; players[0].userId is kept
StartGame_getRoomPlayers(t) ==
    /\ tasks[t].op = "startGame" /\ tasks[t].pc = "getRoomPlayers"
    /\ \E players \in GetRoomPlayersResults(tasks[t].args.roomId) :
          IF TooFewPlayers(players)
          THEN Respond(t, tasks[t], 400, "Need at least 2 players to start")
          ELSE Suspend(t, [tasks[t] EXCEPT !.pc = "updateRoom",
                                           !.first = players[1].userId])
    /\ UNCHANGED <<storageVars, registryVars, inbox>>

\* await storage.updateRoom; broadcastToRoom(game_started); res.json(updatedRoom)
StartGame_updateRoom(t) ==
    /\ tasks[t].op = "startGame" /\ tasks[t].pc = "updateRoom"
    /\ LET a == tasks[t].args
       IN  /\ rooms' = UpdateRoom(a.roomId, "playing", tasks[t].first)
           /\ UNCHANGED <<roomPlayers, gameSubmissions, gameVotes, registryVars>>
           /\ inbox' = BroadcastToRoom(a.roomId, GameStartedEvent(tasks[t].first))
           /\ Respond(t, tasks[t], 200, "")


(***************************************************************************)
(* POST /api/submissions                                                   *)
(***************************************************************************)
\* a turn check that lets anyone submit while nobody has the turn
NotYourTurn_UnlessNoTurn(room, playerId) ==
    room.currentPlayerId # Null /\ room.currentPlayerId # playerId

\* room.currentPlayerId !== submissionData.playerId
NotYourTurn(room, playerId) == room.currentPlayerId # playerId

\* arrival, insertGameSubmissionSchema.parse, await storage.getRoom, the turn check
SubmitPhrase_getRoom(t, roomId, playerId, round, phrase, actualType) ==
    /\ Arrives(t)
    /\ LET task == NewTask("submitPhrase", "createSubmission",
                           [roomId |-> roomId, playerId |-> playerId, round |-> round,
                            phrase |-> phrase, actualType |-> actualType])
       IN  IF ~RoomExists(roomId) THEN Respond(t, task, 404, "Room not found")
           ELSE IF NotYourTurn(rooms[roomId], playerId)
                THEN Respond(t, task, 400, "Not your turn")
           ELSE /\ SubmissionsBelowBound
                /\ Suspend(t, task)
    /\ UNCHANGED <<storageVars, registryVars, inbox>>

\* a submission handler that moves the room on to the next round
SubmitPhrase_createSubmission_AdvancesRound(t) ==
    /\ tasks[t].op = "submitPhrase" /\ tasks[t].pc = "createSubmission"
    /\ UNCHANGED <<roomPlayers, gameVotes, registryVars>>
    /\ LET a == tasks[t].args
       IN  IF CreateSubmissionThrows(a)
           THEN /\ Respond(t, tasks[t], 400, "Invalid submission data")
                /\ UNCHANGED <<rooms, gameSubmissions, inbox>>
           ELSE LET submission == NewSubmissionRow(a)
                IN  /\ gameSubmissions' = Append(gameSubmissions, submission)
                    /\ rooms' = [rooms EXCEPT ![a.roomId].currentRound = @ + 1]
                    /\ inbox' = BroadcastToRoom(a.roomId, NewSubmissionEvent(submission))
                    /\ Respond(t, tasks[t], 200, "")

\* await storage.createSubmission; broadcastToRoom(new_submission); res.json(submission)
SubmitPhrase_createSubmission(t) ==
    /\ tasks[t].op = "submitPhrase" /\ tasks[t].pc = "createSubmission"
    /\ UNCHANGED <<rooms, roomPlayers, gameVotes, registryVars>>
    /\ LET a == tasks[t].args
       IN  IF CreateSubmissionThrows(a)
           THEN /\ Respond(t, tasks[t], 400, "Invalid submission data")
                /\ UNCHANGED <<gameSubmissions, inbox>>
           ELSE LET submission == NewSubmissionRow(a)
                IN  /\ gameSubmissions' = Append(gameSubmissions, submission)
                    /\ inbox' = BroadcastToRoom(a.roomId, NewSubmissionEvent(submission))
                    /\ Respond(t, tasks[t], 200, "")

(***************************************************************************)
(* POST /api/votes                                                         *)
(***************************************************************************)
\* arrival, insertGameVoteSchema.parse, await storage.hasUserVoted, the check
CastVote_hasUserVoted(t, submissionId, voterId, guessedType, isCorrect) ==
    /\ Arrives(t)
    /\ LET task == NewTask("castVote", "createVote",
                           [submissionId |-> submissionId, voterId |-> voterId,
                            guessedType |-> guessedType, isCorrect |-> isCorrect])
       IN  IF HasUserVoted(submissionId, voterId)
           THEN Respond(t, task, 400, "Already voted")
           ELSE /\ VotesBelowBound
                /\ Suspend(t, task)
    /\ UNCHANGED <<storageVars, registryVars, inbox>>

\* a vote handler that announces the vote to the room of the submission
CastVote_createVote_Announces(t) ==
    /\ tasks[t].op = "castVote" /\ tasks[t].pc = "createVote"
    /\ UNCHANGED <<rooms, roomPlayers, gameSubmissions, registryVars>>
    /\ LET a == tasks[t].args
       IN  IF CreateVoteThrows(a)
           THEN /\ Respond(t, tasks[t], 400, "Invalid vote data")
                /\ UNCHANGED <<gameVotes, inbox>>
           ELSE /\ gameVotes' = Append(gameVotes, NewVoteRow(a))
                /\ inbox' = BroadcastToRoom(gameSubmissions[a.submissionId].roomId,
                                            [type |-> "new_vote", voterId |-> a.voterId])
                /\ Respond(t, tasks[t], 200, "")

\* await storage.createVote; res.json(vote)
CastVote_createVote(t) ==
    /\ tasks[t].op = "castVote" /\ tasks[t].pc = "createVote"
    /\ LET a == tasks[t].args
       IN  IF CreateVoteThrows(a)
           THEN /\ Respond(t, tasks[t], 400, "Invalid vote data")
                /\ UNCHANGED gameVotes
           ELSE /\ gameVotes' = Append(gameVotes, NewVoteRow(a))
                /\ Respond(t, tasks[t], 200, "")
    /\ UNCHANGED <<rooms, roomPlayers, gameSubmissions, registryVars, inbox>>

(***************************************************************************)
(* Storage failures.  Every storage operation is a query on a connection   *)
(* pool and may reject for a reason that has nothing to do with the        *)
(* request (connection lost, timeout).  The rejected promise throws at the *)
(* await, the handler's catch answers, and the operation has written       *)
(* nothing.                                                                *)
(***************************************************************************)
Operations == {"createRoom", "joinRoom", "startGame", "submitPhrase", "castVote"}

\* the status and the error of each handler's catch
CatchStatus(op) == IF op = "startGame" THEN 500 ELSE 400
CatchError(op) ==
    CASE op = "createRoom"   -> "Invalid room data"
      [] op = "joinRoom"     -> "Failed to join room"
      [] op = "startGame"    -> "Failed to start game"
      [] op = "submitPhrase" -> "Invalid submission data"
      [] op = "castVote"     -> "Invalid vote data"

\* a request whose body passes the handler's checks arrives and its first
\* storage operation rejects
FirstCallRejects(t, op) ==
    /\ Arrives(t)
    /\ Respond(t, NewTask(op, "idle", NoArgs), CatchStatus(op), CatchError(op))
    /\ UNCHANGED <<storageVars, registryVars, inbox>>

\* the storage operation a request is suspended at rejects
AwaitRejects(t) ==
    /\ ~Free(t)
    /\ Respond(t, tasks[t], CatchStatus(tasks[t].op), CatchError(tasks[t].op))
    /\ UNCHANGED <<storageVars, registryVars, inbox>>

(***************************************************************************)
(* The WebSocket server: wss.on('connection'), ws.on('message'),           *)
(* ws.on('close').  The handlers hold no await: each runs as one step.     *)
(***************************************************************************)
\* a set that leaves the binding of a present key as it is
MapSet_KeepsFirstBinding(m, userId, ws) ==
    IF \E i \in 1..Len(m) : m[i].userId = userId
    THEN m
    ELSE Append(m, [userId |-> userId, ws |-> ws])

\* Map.prototype.set on userConnections: a present key keeps its place
MapSet(m, userId, ws) ==
    IF \E i \in 1..Len(m) : m[i].userId = userId
    THEN [i \in 1..Len(m) |-> IF m[i].userId = userId
                              THEN [userId |-> userId, ws |-> ws] ELSE m[i]]
    ELSE Append(m, [userId |-> userId, ws |-> ws])

\* the first loop of the close handler: ws leaves every set, empty sets are deleted
RoomConnectionsAfterClose(ws) ==
    LET kept == {r \in DOMAIN roomConnections : roomConnections[r] \ {ws} # {}}
    IN  [r \in kept |-> roomConnections[r] \ {ws}]

\* a second loop that deletes the first entry of the map it visits,
\* without comparing its connection to ws
UserConnectionsAfterClose_DropsFirstEntry(ws) ==
    IF userConnections = <<>> THEN userConnections ELSE Tail(userConnections)

\* the second loop of the close handler: the first entry bound to ws is
\* deleted, and the loop breaks
UserConnectionsAfterClose(ws) ==
    LET hits == {i \in 1..Len(userConnections) : userConnections[i].ws = ws}
    IN  IF hits = {} THEN userConnections
        ELSE LET k == CHOOSE i \in hits : \A j \in hits : i <= j
             IN  [i \in 1..(Len(userConnections) - 1) |->
                     IF i < k THEN userConnections[i] ELSE userConnections[i + 1]]

\* a client connects: the server-side socket is open
WsConnect(ws) ==
    /\ readyState[ws] = "NONE"
    /\ readyState' = [readyState EXCEPT ![ws] = "OPEN"]
    /\ UNCHANGED <<storageVars, roomConnections, userConnections, inbox, tasks, response>>

\* {type: 'join_room', roomId, userId} arrives on ws
WsJoinRoom(ws, roomId, userId) ==
    /\ readyState[ws] = "OPEN"
    /\ \A c \in Conns : Len(inbox[c]) < MaxWsInbox
    /\ UNCHANGED <<storageVars, readyState, tasks, response>>
    /\ roomConnections' =
          [r \in DOMAIN roomConnections \cup {roomId} |->
              IF r = roomId
              THEN (IF roomId \in DOMAIN roomConnections
                    THEN roomConnections[roomId] ELSE {}) \cup {ws}
              ELSE roomConnections[r]]
    /\ userConnections' = MapSet(userConnections, userId, ws)
    /\ inbox' = BroadcastToRoom(roomId, UserJoinedEvent(userId))

\* the closing handshake has begun: the socket is no longer open, and its
\* close event has not fired yet
WsClosing(ws) ==
    /\ readyState[ws] = "OPEN"
    /\ readyState' = [readyState EXCEPT ![ws] = "CLOSING"]
    /\ UNCHANGED <<storageVars, roomConnections, userConnections, inbox, tasks, response>>

\* the close event of ws
WsClose(ws) ==
    /\ readyState[ws] \in {"OPEN", "CLOSING"}
    /\ readyState' = [readyState EXCEPT ![ws] = "CLOSED"]
    /\ roomConnections' = RoomConnectionsAfterClose(ws)
    /\ userConnections' = UserConnectionsAfterClose(ws)
    /\ UNCHANGED <<storageVars, inbox, tasks, response>>

(***************************************************************************)
(* Specifications.                                                         *)
(***************************************************************************)
\* the server has started: empty tables, no connection, no request
Init ==
    /\ rooms = <<>>
    /\ roomPlayers = <<>>
    /\ gameSubmissions = <<>>
    /\ gameVotes = <<>>
    /\ roomConnections = <<>>
    /\ userConnections = <<>>
    /\ readyState = [c \in Conns |-> "NONE"]
    /\ inbox = [c \in Conns |-> <<>>]
    /\ tasks = [t \in Tasks |-> IdleTask]
    /\ response = NoResponse

Registry ==
    \E ws \in Conns :
        \/ WsConnect(ws)
        \/ \E roomId \in RoomIds, userId \in Users : WsJoinRoom(ws, roomId, userId)
        \/ WsClosing(ws)
        \/ WsClose(ws)

\* the connection registry alone: sockets connect, send join_room, and close
SpecRegistry == Init /\ [][Registry]_vars

\* The registry the request handlers are checked with, a state SpecRegistry
\* reaches: c2 sent join_room(A, 2) and began to close, c3 sent
\* join_room(B, 1), c1 sent join_room(A, 1).  c1 is open in room A, c2 is
\* in room A and not open, c3 is open in room B only.
ClientsConnected ==
    /\ roomConnections = [r \in RoomIds |-> IF r = "A" THEN {"c1", "c2"} ELSE {"c3"}]
    /\ userConnections = <<[userId |-> 2, ws |-> "c2"], [userId |-> 1, ws |-> "c1"]>>
    /\ readyState = [c \in Conns |-> IF c = "c2" THEN "CLOSING" ELSE "OPEN"]
    /\ inbox = [c \in Conns |->
                  IF c = "c2" THEN <<UserJoinedEvent(2)>> ELSE <<UserJoinedEvent(1)>>]

InitLobby ==
    /\ rooms = <<>>
    /\ roomPlayers = <<>>
    /\ gameSubmissions = <<>>
    /\ gameVotes = <<>>
    /\ ClientsConnected
    /\ tasks = [t \in Tasks |-> IdleTask]
    /\ response = NoResponse

CreateRoom ==
    \E t \in Tasks :
        \/ \E id \in RoomIds, hostId \in UserIdInputs :
              CreateRoom_createRoom(t, id, DefaultMaxRounds, hostId)
        \/ CreateRoom_joinRoom(t)

JoinRoom ==
    \E t \in Tasks :
        \/ \E roomId \in RoomIds, userId \in UserIdInputs : JoinRoom_getRoom(t, roomId, userId)
        \/ JoinRoom_joinRoom(t)

StartGame ==
    \E t \in Tasks :
        \/ \E roomId \in RoomIds, hostId \in Users : StartGame_getRoom(t, roomId, hostId)
        \/ StartGame_getRoomPlayers(t)
        \/ StartGame_updateRoom(t)

SubmitPhrase ==
    \E t \in Tasks :
        \/ \E roomId \in RoomIds, playerId \in Users, round \in Rounds,
              phrase \in Phrases, actualType \in Types :
              SubmitPhrase_getRoom(t, roomId, playerId, round, phrase, actualType)
        \/ SubmitPhrase_createSubmission(t)

CastVote ==
    \E t \in Tasks :
        \/ \E submissionId \in 1..(Len(gameSubmissions) + 1), voterId \in Users,
              guessedType \in Types, isCorrect \in BOOLEAN :
              CastVote_hasUserVoted(t, submissionId, voterId, guessedType, isCorrect)
        \/ CastVote_createVote(t)

NextLobby == CreateRoom \/ JoinRoom \/ StartGame

\* rooms are created, joined and started
SpecLobby == InitLobby /\ [][NextLobby]_vars

\* A state SpecLobby reaches: user 1 created room A and user 2 joined it.
InitGame ==
    /\ rooms = [r \in {"A"} |-> NewRoomRow("A", DefaultMaxRounds, 1)]
    /\ roomPlayers = <<[id |-> 1, roomId |-> "A", userId |-> 1, score |-> 0],
                       [id |-> 2, roomId |-> "A", userId |-> 2, score |-> 0]>>
    /\ gameSubmissions = <<>>
    /\ gameVotes = <<>>
    /\ roomConnections = [r \in RoomIds |-> IF r = "A" THEN {"c1", "c2"} ELSE {"c3"}]
    /\ userConnections = <<[userId |-> 2, ws |-> "c2"], [userId |-> 1, ws |-> "c1"]>>
    /\ readyState = [c \in Conns |-> IF c = "c2" THEN "CLOSING" ELSE "OPEN"]
    /\ inbox = [c \in Conns |->
                  IF c = "c2" THEN <<UserJoinedEvent(2)>>
                  ELSE IF c = "c3" THEN <<UserJoinedEvent(1)>>
                  ELSE <<UserJoinedEvent(1),
                         PlayerJoinedEvent([id |-> 2, roomId |-> "A",
                                            userId |-> 2, score |-> 0])>>]
    /\ tasks = [t \in Tasks |-> IdleTask]
    /\ response = [op |-> "joinRoom", status |-> 200, error |-> ""]

NextGame == StartGame \/ SubmitPhrase

\* a room with two players is started, and phrases are submitted
SpecGame == InitGame /\ [][NextGame]_vars

\* A state SpecGame reaches: room A was started with user 1 to play, who
\* submitted a phrase of either type.
InitVote ==
    /\ rooms = [r \in {"A"} |->
                  [NewRoomRow("A", DefaultMaxRounds, 1) EXCEPT !.status = "playing",
                                                               !.currentPlayerId = 1]]
    /\ roomPlayers = <<[id |-> 1, roomId |-> "A", userId |-> 1, score |-> 0],
                       [id |-> 2, roomId |-> "A", userId |-> 2, score |-> 0]>>
    /\ \E actualType \in Types :
          /\ gameSubmissions = <<[id |-> 1, roomId |-> "A", playerId |-> 1, round |-> 1,
                                  phrase |-> "p", actualType |-> actualType]>>
          /\ gameVotes = <<>>
          /\ roomConnections = [r \in RoomIds |-> IF r = "A" THEN {"c1", "c2"} ELSE {"c3"}]
          /\ userConnections = <<[userId |-> 2, ws |-> "c2"], [userId |-> 1, ws |-> "c1"]>>
          /\ readyState = [c \in Conns |-> IF c = "c2" THEN "CLOSING" ELSE "OPEN"]
          /\ inbox = [c \in Conns |->
                        IF c = "c2" THEN <<UserJoinedEvent(2)>>
                        ELSE IF c = "c3" THEN <<UserJoinedEvent(1)>>
                        ELSE <<UserJoinedEvent(1),
                               PlayerJoinedEvent([id |-> 2, roomId |-> "A",
                                                  userId |-> 2, score |-> 0]),
                               GameStartedEvent(1),
                               [type |-> "new_submission",
                                submission |-> [id |-> 1, phrase |-> "p",
                                                round |-> 1, playerId |-> 1]]>>]
    /\ tasks = [t \in Tasks |-> IdleTask]
    /\ response = [op |-> "submitPhrase", status |-> 200, error |-> ""]

NextVote == CastVote

\* the players vote on the phrases submitted
SpecVote == InitVote /\ [][NextVote]_vars

StorageFails ==
    \E t \in Tasks :
        \/ \E op \in Operations : FirstCallRejects(t, op)
        \/ AwaitRejects(t)

NextFaults == CreateRoom \/ JoinRoom \/ StartGame \/ StorageFails

\* rooms are created, joined and started over a storage whose operations
\* may fail, those of the submission and vote handlers included
SpecFaults == InitLobby /\ [][NextFaults]_vars

\* The state of InitGame with one more request in flight: user 2 sent a
\* second JoinRoom for room A, whose getRoom returned the room with status
\* waiting, and the handler is suspended at storage.joinRoom.
InitRace ==
    /\ rooms = [r \in {"A"} |-> NewRoomRow("A", DefaultMaxRounds, 1)]
    /\ roomPlayers = <<[id |-> 1, roomId |-> "A", userId |-> 1, score |-> 0],
                       [id |-> 2, roomId |-> "A", userId |-> 2, score |-> 0]>>
    /\ gameSubmissions = <<>>
    /\ gameVotes = <<>>
    /\ roomConnections = [r \in RoomIds |-> IF r = "A" THEN {"c1", "c2"} ELSE {"c3"}]
    /\ userConnections = <<[userId |-> 2, ws |-> "c2"], [userId |-> 1, ws |-> "c1"]>>
    /\ readyState = [c \in Conns |-> IF c = "c2" THEN "CLOSING" ELSE "OPEN"]
    /\ inbox = [c \in Conns |->
                  IF c = "c2" THEN <<UserJoinedEvent(2)>>
                  ELSE IF c = "c3" THEN <<UserJoinedEvent(1)>>
                  ELSE <<UserJoinedEvent(1),
                         PlayerJoinedEvent([id |-> 2, roomId |-> "A",
                                            userId |-> 2, score |-> 0])>>]
    /\ tasks = [t \in Tasks |->
                  IF t = 1 THEN NewTask("joinRoom", "joinRoom",
                                        [roomId |-> "A", userId |-> 2])
                  ELSE IdleTask]
    /\ response = [op |-> "joinRoom", status |-> 200, error |-> ""]

NextRace == JoinRoom \/ StartGame \/ SubmitPhrase

\* a JoinRoom is in flight while the room is started and phrases are
\* submitted
SpecRace == InitRace /\ [][NextRace]_vars

\* One client at a time: a request is sent when the one before it has been
\* answered, so that every request runs in slot 1.  The votes are guesses
\* of "truth" on the first submission.
NextPlay ==
    \/ \E roomId \in RoomIds, hostId \in Users : StartGame_getRoom(1, roomId, hostId)
    \/ StartGame_getRoomPlayers(1)
    \/ StartGame_updateRoom(1)
    \/ \E roomId \in RoomIds, playerId \in Users, round \in Rounds,
          phrase \in Phrases, actualType \in Types :
          SubmitPhrase_getRoom(1, roomId, playerId, round, phrase, actualType)
    \/ SubmitPhrase_createSubmission(1)
    \/ \E voterId \in Users : CastVote_hasUserVoted(1, 1, voterId, "truth", TRUE)
    \/ CastVote_createVote(1)

\* a room with two players is started, phrases are submitted and voted on
SpecPlay == InitGame /\ [][NextPlay]_vars

(***************************************************************************)
(* Properties.                                                             *)
(***************************************************************************)
Last(q) == q[Len(q)]
\* the number of room_players rows of a room
PlayerCount(roomId) ==
    Cardinality({i \in 1..Len(roomPlayers) : roomPlayers[i].roomId = roomId})
\* a request has been answered with this status and error
Answered(op, status, error) ==
    response = [op |-> op, status |-> status, error |-> error]
AnsweredNext(op, status, error) ==
    response' = [op |-> op, status |-> status, error |-> error]

\* C1: a StartGame call that finds the room already playing fails with an
\* error, leaves the room's status and current-turn player as they are, and
\* broadcasts nothing.  The call is one whose getRoom returned status
\* playing; every step of it is covered.
C1_StartGameOncePlayingFails ==
    [][\A t \in Tasks :
          (/\ tasks[t].op = "startGame"
           /\ tasks[t].room.status = "playing"
           /\ tasks'[t] # tasks[t])
          => /\ rooms' = rooms
             /\ inbox' = inbox
             /\ (tasks'[t] = IdleTask => response'.op = "startGame" /\ response'.status >= 400)
      ]_vars

\* C2: a broadcast to a room delivers the event to exactly the connections
\* that are in the room's set at the call and are open: each of them gets
\* it, a member that is not open is skipped and the others are still served,
\* and a connection that is in other rooms only gets nothing.  (The call
\* checked is the one join_room makes, after it added the sender to the set.)
C2_BroadcastReachesOpenMembersOnly ==
    [][\A ws \in Conns, roomId \in RoomIds, userId \in Users :
          WsJoinRoom(ws, roomId, userId)
          => \A c \in Conns :
                IF /\ roomId \in DOMAIN roomConnections'
                   /\ c \in roomConnections'[roomId]
                   /\ readyState[c] = "OPEN"
                THEN inbox'[c] = Append(inbox[c], UserJoinedEvent(userId))
                ELSE inbox'[c] = inbox[c]
      ]_vars

\* an open member got an event that a member that is closing, and an open
\* connection of another room, did not get
C2_Witness ==
    \E roomId \in DOMAIN roomConnections, a, b, c \in Conns :
        /\ {a, b} \subseteq roomConnections[roomId]
        /\ c \notin roomConnections[roomId]
        /\ \E other \in DOMAIN roomConnections : c \in roomConnections[other]
        /\ readyState[a] = "OPEN" /\ readyState[b] = "CLOSING" /\ readyState[c] = "OPEN"
        /\ inbox[a] # <<>>
        /\ \A i \in 1..Len(inbox[b]) : inbox[b][i] # Last(inbox[a])
        /\ \A i \in 1..Len(inbox[c]) : inbox[c][i] # Last(inbox[a])

\* C3: a CastVote call that arrives when a vote of the same (submissionId,
\* voterId) is stored is answered 400 "Already voted", ends there, and
\* inserts no vote row.
C3_SecondVoteRejected ==
    [][\A t \in Tasks, submissionId \in 1..(Len(gameSubmissions) + 1), voterId \in Users :
          (\E i \in 1..Len(gameVotes) :
              /\ gameVotes[i].submissionId = submissionId
              /\ gameVotes[i].voterId = voterId)
          => \A guessedType \in Types, isCorrect \in BOOLEAN :
                CastVote_hasUserVoted(t, submissionId, voterId, guessedType, isCorrect)
                => /\ AnsweredNext("castVote", 400, "Already voted")
                   /\ tasks'[t] = IdleTask
                   /\ gameVotes' = gameVotes
      ]_vars

\* a second vote was turned away, and the first is the only one stored for the pair
C3_Witness ==
    /\ Answered("castVote", 400, "Already voted")
    /\ Len(gameVotes) = 1
    /\ \A t \in Tasks : tasks[t] = IdleTask

\* C4: the isCorrect flag of every stored vote says whether its guessedType
\* is the actualType of the submission it references.
C4_IsCorrectDerivedFromSubmission ==
    \A i \in 1..Len(gameVotes) :
        gameVotes[i].isCorrect =
            (gameVotes[i].guessedType = gameSubmissions[gameVotes[i].submissionId].actualType)

\* C5: a SubmitPhrase call whose playerId is not the current-turn player of
\* the room it reads (null while the room is waiting) is answered 400 "Not
\* your turn", ends there, inserts no submission and broadcasts nothing.
C5_NotYourTurnRejected ==
    [][\A t \in Tasks, roomId \in DOMAIN rooms, playerId \in Users :
          rooms[roomId].currentPlayerId # playerId
          => \A round \in Rounds, phrase \in Phrases, actualType \in Types :
                SubmitPhrase_getRoom(t, roomId, playerId, round, phrase, actualType)
                => /\ AnsweredNext("submitPhrase", 400, "Not your turn")
                   /\ tasks'[t] = IdleTask
                   /\ gameSubmissions' = gameSubmissions
                   /\ inbox' = inbox
      ]_vars

\* a player was told it is not their turn, in a game that another player has the turn of
C5_Witness ==
    /\ Answered("submitPhrase", 400, "Not your turn")
    /\ \E roomId \in DOMAIN rooms :
          rooms[roomId].status = "playing" /\ rooms[roomId].currentPlayerId \in Users

\* C6: what the connections are sent does not depend on a submission's
\* actualType.  The step that stores a submission and broadcasts leaves
\* every inbox as the same step would with the other actualType in the
\* request (no other step reads a stored actualType), and no event in any
\* inbox has an actualType field, at its top or in its submission.
C6_NewSubmissionHidesActualType ==
    [][/\ \A t \in Tasks :
             SubmitPhrase_createSubmission(t)
             => \A actualType \in Types :
                   LET a == [tasks[t].args EXCEPT !.actualType = actualType]
                   IN  inbox' = IF CreateSubmissionThrows(a) THEN inbox
                                ELSE BroadcastToRoom(a.roomId,
                                                     NewSubmissionEvent(NewSubmissionRow(a)))
       /\ \A c \in Conns : \A i \in 1..Len(inbox'[c]) :
             LET m == inbox'[c][i]
             IN  /\ "actualType" \notin DOMAIN m
                 /\ m.type = "new_submission" => "actualType" \notin DOMAIN m.submission
      ]_vars

\* a new_submission event was delivered for a stored submission of each type
C6_Witness ==
    \E i, j \in 1..Len(inbox["c1"]) :
        /\ inbox["c1"][i].type = "new_submission"
        /\ inbox["c1"][j].type = "new_submission"
        /\ gameSubmissions[inbox["c1"][i].submission.id].actualType = "truth"
        /\ gameSubmissions[inbox["c1"][j].submission.id].actualType = "meme"

\* C7: a JoinRoom call that reads a room whose status is not waiting is
\* answered 400 "Game already in progress", and one that finds no room is
\* answered 404 "Room not found"; either ends there, inserts no room_players
\* row and broadcasts nothing.  (A call with no userId never reads the room.)
C7_JoinRejectedUnlessWaiting ==
    [][\A t \in Tasks, roomId \in RoomIds, userId \in UserIdInputs \ {0} :
          JoinRoom_getRoom(t, roomId, userId)
          => /\ (roomId \in DOMAIN rooms /\ rooms[roomId].status # "waiting")
                => /\ AnsweredNext("joinRoom", 400, "Game already in progress")
                   /\ tasks'[t] = IdleTask
                   /\ roomPlayers' = roomPlayers
                   /\ inbox' = inbox
             /\ roomId \notin DOMAIN rooms
                => /\ AnsweredNext("joinRoom", 404, "Room not found")
                   /\ tasks'[t] = IdleTask
                   /\ roomPlayers' = roomPlayers
                   /\ inbox' = inbox
      ]_vars

\* a join was turned away from a game in progress
C7_Witness ==
    /\ Answered("joinRoom", 400, "Game already in progress")
    /\ \E roomId \in DOMAIN rooms : rooms[roomId].status = "playing"

C9_FirstJoinerPlaysFirst ==
    [][\A t \in Tasks :
          StartGame_updateRoom(t)
          => LET roomId == tasks[t].args.roomId
                 earliest == RoomPlayerRows(roomId)[1].userId
             IN  /\ rooms'[roomId].status = "playing"
                 /\ rooms'[roomId].currentPlayerId = earliest
                 /\ \A c \in Conns :
                       inbox'[c] # inbox[c] => Last(inbox'[c]) = GameStartedEvent(earliest)
      ]_vars

\* C10: a StartGame call whose hostId is not the host of the room it reads
\* is answered 403, ends there, changes no room and broadcasts nothing,
\* however many players the room has.
C10_NonHostForbidden ==
    [][\A t \in Tasks, roomId \in DOMAIN rooms, hostId \in Users :
          (rooms[roomId].hostId # hostId /\ StartGame_getRoom(t, roomId, hostId))
          => /\ AnsweredNext("startGame", 403, "Only host can start the game")
             /\ tasks'[t] = IdleTask
             /\ rooms' = rooms
             /\ inbox' = inbox
      ]_vars

\* a player who is not the host was forbidden to start a room that has two players
C10_Witness ==
    /\ Answered("startGame", 403, "Only host can start the game")
    /\ \E roomId \in DOMAIN rooms :
          PlayerCount(roomId) >= 2 /\ rooms[roomId].status = "waiting"

\* C11: under any interleaving of requests, a room whose status is not
\* waiting (playing, or anything a later status may be) never has status
\* waiting again: no step takes a room from another status to waiting, and
\* no step removes a room.
C11_StatusNeverBackToWaiting ==
    [][\A roomId \in DOMAIN rooms :
          /\ roomId \in DOMAIN rooms'
          /\ rooms[roomId].status # "waiting" => rooms'[roomId].status # "waiting"
      ]_vars

\* a room is still playing after it was started a second time: an open
\* connection of the room holds two game_started events
C11_Witness ==
    \E roomId \in DOMAIN rooms, c \in Conns :
        /\ rooms[roomId].status = "playing"
        /\ roomId \in DOMAIN roomConnections /\ c \in roomConnections[roomId]
        /\ Cardinality({i \in 1..Len(inbox[c]) : inbox[c][i].type = "game_started"}) >= 2

\* C12: in every reachable state, a room whose current-turn player is not
\* null has status playing, and that player is the user of a room_players
\* row of the room.
C12_CurrentPlayerIsAJoinedPlayer ==
    \A roomId \in DOMAIN rooms :
        rooms[roomId].currentPlayerId # Null
        => /\ rooms[roomId].status = "playing"
           /\ \E i \in 1..Len(roomPlayers) :
                 /\ roomPlayers[i].roomId = roomId
                 /\ roomPlayers[i].userId = rooms[roomId].currentPlayerId

\* a game was started with a player who is not the host to play
C12_Witness ==
    \E roomId \in DOMAIN rooms :
        /\ rooms[roomId].currentPlayerId \in Users
        /\ rooms[roomId].currentPlayerId # rooms[roomId].hostId

\* C13: in every reachable state there is at most one game_submissions row
\* for each (room, round) pair.
C13_OneSubmissionPerRound ==
    \A i, j \in 1..Len(gameSubmissions) :
        (/\ gameSubmissions[i].roomId = gameSubmissions[j].roomId
         /\ gameSubmissions[i].round = gameSubmissions[j].round)
        => i = j

\* C14: in every reachable state there is at most one game_votes row for
\* each (submission, voter) pair, two requests for the same pair in flight
\* at once included.
C14_OneVotePerVoter ==
    \A i, j \in 1..Len(gameVotes) :
        (/\ gameVotes[i].submissionId = gameVotes[j].submissionId
         /\ gameVotes[i].voterId = gameVotes[j].voterId)
        => i = j

\* C15: in every reachable state each user id is in at most one
\* room_players row of each room.
C15_OneRowPerUserAndRoom ==
    \A i, j \in 1..Len(roomPlayers) :
        (/\ roomPlayers[i].roomId = roomPlayers[j].roomId
         /\ roomPlayers[i].userId = roomPlayers[j].userId)
        => i = j

\* C16: in every reachable registry state each user id is mapped to at most
\* one connection, and right after a join_room message for user u is
\* handled on connection c, u is mapped to c, whatever u was mapped to.
C16_LatestJoinBindsUser ==
    [][/\ \A i, j \in 1..Len(userConnections') :
             userConnections'[i].userId = userConnections'[j].userId => i = j
       /\ \A ws \in Conns, roomId \in RoomIds, userId \in Users :
             WsJoinRoom(ws, roomId, userId)
             => \E i \in 1..Len(userConnections') :
                   userConnections'[i] = [userId |-> userId, ws |-> ws]
      ]_vars

\* a user was bound to one connection and then to another: only two
\* connections ever opened, they share no room, the one the user is not
\* mapped to was sent the user_joined of its own join for the user, and the
\* map holds the user with the other connection and nothing else
C16_Witness ==
    \E userId \in Users, old, new \in Conns :
        /\ old # new
        /\ readyState[old] = "OPEN" /\ readyState[new] = "OPEN"
        /\ \A c \in Conns \ {old, new} : readyState[c] = "NONE"
        /\ \A roomId \in DOMAIN roomConnections : ~({old, new} \subseteq roomConnections[roomId])
        /\ \E i \in 1..Len(inbox[old]) : inbox[old][i] = UserJoinedEvent(userId)
        /\ userConnections = <<[userId |-> userId, ws |-> new]>>

\* C17: when a join_room message for a user who is bound to another, open
\* connection is handled, that old connection is sent nothing by the
\* handler (not the user_joined event either) and stays open.
C17_OldConnectionNotNotified ==
    [][\A ws \in Conns, old \in Conns, userId \in Users :
          (/\ old # ws
           /\ readyState[old] = "OPEN"
           /\ \E i \in 1..Len(userConnections) :
                 userConnections[i] = [userId |-> userId, ws |-> old])
          => \A roomId \in RoomIds :
                WsJoinRoom(ws, roomId, userId)
                => inbox'[old] = inbox[old] /\ readyState'[old] = "OPEN"
      ]_vars

\* C18: after the close handler of a connection has run, the connection is
\* in no room's set, no room is mapped to an empty set, and no user id is
\* mapped to the connection.
C18_CloseRemovesEveryBinding ==
    [][\A ws \in Conns :
          WsClose(ws)
          => /\ \A roomId \in DOMAIN roomConnections' :
                   ws \notin roomConnections'[roomId] /\ roomConnections'[roomId] # {}
             /\ \A i \in 1..Len(userConnections') : userConnections'[i].ws # ws
      ]_vars

\* C19: when a CreateRoom call succeeds, the room exists with the host and
\* maxRounds given, status waiting, current round 1 and no current-turn
\* player, the room's player rows are exactly one row of the host with
\* score 0, and the call's last step has sent no message (its first step
\* never sends one).
C19_CreatedRoomHoldsOnlyItsHost ==
    [][\A t \in Tasks :
          (CreateRoom_joinRoom(t) /\ response'.status = 200)
          => LET a == tasks[t].args
                 players == SelectSeq(roomPlayers', LAMBDA r : r.roomId = a.id)
             IN  /\ a.id \in DOMAIN rooms'
                 /\ rooms'[a.id] = [id |-> a.id, hostId |-> a.hostId, status |-> "waiting",
                                    currentPlayerId |-> Null, currentRound |-> 1,
                                    maxRounds |-> a.maxRounds]
                 /\ Len(players) = 1
                 /\ players[1].userId = a.hostId /\ players[1].score = 0
                 /\ inbox' = inbox
      ]_vars

\* C20: a CreateRoom call whose id is the id of a room that exists is
\* answered with an error (400), ends there, and changes no room and no
\* room_players row: the existing room keeps its status, host, current-turn
\* player and round, and the caller does not become a player of it.
C20_DuplicateRoomRejected ==
    [][\A t \in Tasks, id \in DOMAIN rooms, hostId \in UserIdInputs :
          CreateRoom_createRoom(t, id, DefaultMaxRounds, hostId)
          => /\ AnsweredNext("createRoom", 400,
                             IF hostId = 0 THEN "Host ID is required" ELSE "Invalid room data")
             /\ tasks'[t] = IdleTask
             /\ rooms' = rooms
             /\ roomPlayers' = roomPlayers
             /\ inbox' = inbox
      ]_vars

\* every room id was taken when the last request, a CreateRoom, was turned
\* away: both rooms exist with their host's row and no request is in flight
C20_Witness ==
    /\ Answered("createRoom", 400, "Invalid room data")
    /\ DOMAIN rooms = RoomIds
    /\ \A roomId \in RoomIds : PlayerCount(roomId) = 1
    /\ \A t \in Tasks : tasks[t] = IdleTask

\* C21: no operation is partially applied.  The step in which a request in
\* flight is answered with an error changes no table, and when that request
\* is a CreateRoom, whose room insert succeeded before the handler was
\* suspended, the room it inserted is no longer stored.
C21_FailedCallLeavesStorageAsBefore ==
    [][\A t \in Tasks :
          ~Free(t) /\ tasks'[t] = IdleTask /\ response'.status >= 400
          => /\ storageVars' = storageVars
             /\ tasks[t].op = "createRoom" => ~(tasks[t].args.id \in DOMAIN rooms')
      ]_vars

\* C22: a storage operation that rejects for a reason outside the request,
\* in any of the five handlers, is answered with status 500.
C22_StorageFailureAnswers500 ==
    [][\A t \in Tasks :
          (AwaitRejects(t) \/ \E op \in Operations : FirstCallRejects(t, op))
          => response'.status = 500
      ]_vars

C24_RoomsStayInFirstRound ==
    [][/\ \A roomId \in DOMAIN rooms' :
             /\ rooms'[roomId].status \in {"waiting", "playing"}
             /\ rooms'[roomId].currentRound = 1
       /\ \A i \in 1..Len(roomPlayers') : roomPlayers'[i].score = 0
       /\ rooms' # rooms => ~(SubmitPhrase \/ CastVote)
      ]_vars

\* the game was started again, a second phrase was submitted and a vote
\* was cast: room A is still playing in round 1 with both scores 0
C24_Witness ==
    /\ Len(gameSubmissions) = 2
    /\ Len(gameVotes) >= 1
    /\ rooms["A"].currentPlayerId = 2
    /\ rooms["A"].status = "playing" /\ rooms["A"].currentRound = 1
    /\ \A i \in 1..Len(roomPlayers) : roomPlayers[i].score = 0

\* C25: a step of the vote handler delivers no message and leaves rooms,
\* room_players, submissions and the connection registry as they are.  It
\* leaves the votes as they are too, unless it is the last step of a call
\* answered with 200, which appends the one row of that call's body; a call
\* answered with an error has added no row.
C25_CastVoteOnlyAddsAVote ==
    [][CastVote
       => /\ inbox' = inbox
          /\ rooms' = rooms
          /\ roomPlayers' = roomPlayers
          /\ gameSubmissions' = gameSubmissions
          /\ registryVars' = registryVars
          /\ \/ gameVotes' = gameVotes
             \/ \E t \in Tasks :
                   /\ tasks[t].op = "castVote" /\ tasks'[t] = IdleTask
                   /\ response'.status = 200
                   /\ Len(gameVotes') = Len(gameVotes) + 1
                   /\ SubSeq(gameVotes', 1, Len(gameVotes)) = gameVotes
                   /\ Last(gameVotes').submissionId = tasks[t].args.submissionId
                   /\ Last(gameVotes').voterId = tasks[t].args.voterId
      ]_vars

\* two votes were stored and a third call was turned away: the inboxes are
\* those the vote handler found
C25_Witness ==
    /\ Len(gameVotes) = MaxVotes
    /\ Answered("castVote", 400, "Already voted")
    /\ Len(inbox["c1"]) = 4 /\ Len(inbox["c2"]) = 1 /\ Len(inbox["c3"]) = 1

\* C26: a step that inserts a room_players row inserts it for a room whose
\* stored status is not playing, also when a JoinRoom and a StartGame for
\* the room are in flight together.
C26_NoRowAddedWhilePlaying ==
    [][Len(roomPlayers') > Len(roomPlayers)
       => rooms[Last(roomPlayers').roomId].status # "playing"
      ]_vars

\* C27: the close handler of a connection leaves every binding to another
\* connection as it is, the binding of a user who was bound to the closing
\* connection before included: every entry of the user map whose connection
\* is not the closing one is kept, no entry is added or altered, and every
\* other connection stays in every room set it was in.
C27_CloseKeepsNewerBinding ==
    [][\A ws \in Conns :
          (readyState[ws] # "CLOSED" /\ readyState'[ws] = "CLOSED" /\ WsClose(ws))
          => /\ \A i \in 1..Len(userConnections) :
                   userConnections[i].ws # ws
                   => \E j \in 1..Len(userConnections') :
                         userConnections'[j] = userConnections[i]
             /\ \A j \in 1..Len(userConnections') :
                   \E i \in 1..Len(userConnections) :
                      userConnections[i] = userConnections'[j]
             /\ \A roomId \in DOMAIN roomConnections :
                   \A c \in roomConnections[roomId] \ {ws} :
                      roomId \in DOMAIN roomConnections' /\ c \in roomConnections'[roomId]
      ]_vars

\* user u was bound to old and then to new, and old has closed: old's first
\* message is the user_joined of its own join for u, new's is that of its
\* own join for u, both were then sent the user_joined of old's join, for
\* the other user, to new's room, and after old's close handler the map
\* holds u with new, which is still in its room
C27_Witness ==
    \E u \in Users, v \in Users, old \in Conns, new \in Conns, roomId \in RoomIds :
        /\ u # v /\ old # new
        /\ readyState[old] = "CLOSED" /\ readyState[new] = "OPEN"
        /\ \A c \in Conns \ {old, new} : readyState[c] = "NONE"
        /\ inbox[old] = <<UserJoinedEvent(u), UserJoinedEvent(v)>>
        /\ inbox[new] = <<UserJoinedEvent(u), UserJoinedEvent(v)>>
        /\ userConnections = <<[userId |-> u, ws |-> new]>>
        /\ roomConnections = [r \in {roomId} |-> {new}]

\* C28: in every reachable state every stored submission is of a room whose
\* status is playing and whose current-turn player is the submission's
\* player.
C28_SubmissionsByCurrentPlayer ==
    \A i \in 1..Len(gameSubmissions) :
        /\ rooms[gameSubmissions[i].roomId].status = "playing"
        /\ rooms[gameSubmissions[i].roomId].currentPlayerId = gameSubmissions[i].playerId

\* C29: in every reachable state the round of every stored submission is
\* the current round of its room (which no handler changes, so it is the
\* round the room had when the submission was stored): a SubmitPhrase whose
\* round is another one has stored nothing.
C29_SubmissionsOfCurrentRound ==
    \A i \in 1..Len(gameSubmissions) :
        gameSubmissions[i].round = rooms[gameSubmissions[i].roomId].currentRound

\* C30: a join_room message for a room, handled on a connection that is in
\* the room's set already, leaves every room set as it is, and its
\* broadcast delivers user_joined once to each open member of the room,
\* the connection itself included, and nothing to anyone else.
C30_RepeatedJoinKeepsRoomSet ==
    [][\A roomId \in DOMAIN roomConnections :
          \A ws \in roomConnections[roomId], userId \in Users :
             WsJoinRoom(ws, roomId, userId)
             => /\ roomConnections' = roomConnections
                /\ \A c \in Conns :
                      inbox'[c] = IF c \in roomConnections[roomId] /\ readyState[c] = "OPEN"
                                  THEN Append(inbox[c], UserJoinedEvent(userId))
                                  ELSE inbox[c]
      ]_vars

\* one connection ever opened, and it sent join_room for the same room
\* twice: it is the room's only member and was sent two user_joined events
C30_Witness ==
    \E ws \in Conns, roomId \in RoomIds :
        /\ readyState[ws] = "OPEN"
        /\ \A c \in Conns \ {ws} : readyState[c] = "NONE"
        /\ roomConnections = [r \in {roomId} |-> {ws}]
        /\ Len(inbox[ws]) = 2

\* C31: after every step, the earliest room_players row of every room that
\* has one is the row of the room's host, also when a JoinRoom for the room
\* ran between the two inserts of its CreateRoom; and a StartGame that
\* starts a waiting room stores the host as the current-turn player.
C31_HostIsFirstPlayer ==
    [][/\ \A roomId \in DOMAIN rooms' :
             LET players == SelectSeq(roomPlayers', LAMBDA r : r.roomId = roomId)
             IN  players # <<>> => players[1].userId = rooms'[roomId].hostId
       /\ \A t \in Tasks :
             (/\ tasks[t].op = "startGame"
              /\ rooms[tasks[t].args.roomId].status = "waiting"
              /\ StartGame_updateRoom(t))
             => rooms'[tasks[t].args.roomId].currentPlayerId
                   = rooms[tasks[t].args.roomId].hostId
      ]_vars

=============================================================================
